---- MODULE Spec2Model ----
(***************************************************************************)
(* A model of the sora plugin host (src/src/lib.rs): PluginManager         *)
(* (load_plugin, into_dispatcher), Dispatcher (dispatch, dispatch_par) and *)
(* the drop order of plugin instances and libraries.                       *)
(*                                                                         *)
(* petgraph's toposort is a library outside this repository; it is         *)
(* modelled by its documented contract: for an acyclic graph it returns    *)
(* some order in which every node precedes its successors, otherwise       *)
(* Err(Cycle(n)) for a node n that participates in a cycle.  The model     *)
(* takes every such outcome.  The thread pool is assumed to build.         *)
(***************************************************************************)
EXTENDS Integers, Sequences, FiniteSets, TLC

\* Bound on the number of successful load_plugin calls.
MaxPlugins == 4

\* Bound on the number of dispatch / dispatch_par invocations on a Dispatcher.
MaxDispatches == 2

\* Number of workers of the rayon thread pool in the model.
PoolSize == 2

(***************************************************************************)
(* The Loader: a file name yields a plugin type, or an error.              *)
(***************************************************************************)

\* The plugin modules the loader knows: file "X_Y" holds a plugin named X that
\* depends on Y ("C_AB": on A and B); file "X" holds a plugin named X with no
\* dependencies.  No file holds a plugin named Z.
PluginFiles == {"A", "A_B", "A_A", "A_Z", "B", "B_A", "C", "C_B", "C_AB"}

\* Files for which the Loader returns an error: no such file, a library that
\* exports nothing, and the library of plugins/hello-world.
BadFiles == {"missing", "not_a_plugin", "hello_world"}

Files == PluginFiles \cup BadFiles

\* Plugin::name of the plugin a file holds.
name(file) ==
    CASE file \in {"A", "A_B", "A_A", "A_Z"} -> "A"
      [] file \in {"B", "B_A"} -> "B"
      [] file \in {"C", "C_B", "C_AB"} -> "C"
      [] file = "hello_world" -> "Hello"

\* Plugin::dependencies of the plugin a file holds.
dependencies(file) ==
    CASE file = "A_B" -> <<"B">>
      [] file = "A_A" -> <<"A">>
      [] file = "A_Z" -> <<"Z">>
      [] file = "B_A" -> <<"A">>
      [] file = "C_B" -> <<"B">>
      [] file = "C_AB" -> <<"A", "B">>
      [] OTHER -> <<>>

\* Library::new(filename) returns a handle.
IsLibrary(filename) == filename # "missing"

\* The symbols a library exports: plugins/hello-world exports plugin_create.
Exports(filename) ==
    CASE filename = "missing" -> {}
      [] filename = "not_a_plugin" -> {}
      [] filename = "hello_world" -> {"plugin_create"}
      [] OTHER -> {"create_plugin"}

\* The symbol Native::load asks the library for.
EntryPoint == "create_plugin"

\* Loader::load: Ok((library, plugin)) or Err(PluginLoadError).
\* Library::new(..).map_err(Library)?, then library.get(..).map_err(Plugin)?.
load(filename) ==
    IF ~IsLibrary(filename) THEN [ok |-> FALSE, error |-> "Err_Library"]
    ELSE IF EntryPoint \notin Exports(filename)
         THEN [ok |-> FALSE, error |-> "Err_Plugin"]
         ELSE [ok |-> TRUE, error |-> "none"]

(***************************************************************************)
(* State.                                                                  *)
(***************************************************************************)
VARIABLES
    pc,              \* "manager", "dispatcher", "unwinding", "dropping", "terminated"
    plugins,         \* PluginManager.plugins: sequence of instances [id, file]
    name_of_plugin,  \* PluginManager.name_of_plugin: name -> index (from 0)
    libraries,       \* PluginManager.libraries / Dispatcher.libraries: library ids
    stages,          \* Dispatcher.stages (or the local `stages` while unwinding)
    result,          \* what the last call returned or how it panicked
    cycleNode,       \* the NodeIndex carried by a Cycle panic, -1 otherwise
    loaded,          \* history: the files loaded successfully, in load order
    mode,            \* "none", "dispatch", "dispatch_par": the dispatch in progress
    stageIdx,        \* the stage the dispatch loop is at (from 1)
    started,         \* positions of the current stage whose run has been started
    running,         \* ids of the instances whose run is in progress
    done,            \* ids of the instances whose run has returned in this dispatch
    log,             \* history: run events <<"start"|"end", id>> of all dispatches
    ndispatch        \* number of dispatch invocations begun

vars == <<pc, plugins, name_of_plugin, libraries, stages, result, cycleNode,
          loaded, mode, stageIdx, started, running, done, log, ndispatch>>

dispatchVars == <<mode, stageIdx, started, running, done, log, ndispatch>>

\* PluginManager::default()
Init ==
    /\ pc = "manager"
    /\ plugins = <<>>
    /\ name_of_plugin = <<>>
    /\ libraries = <<>>
    /\ stages = <<>>
    /\ result = "none"
    /\ cycleNode = -1
    /\ loaded = <<>>
    /\ mode = "none"
    /\ stageIdx = 0
    /\ started = {}
    /\ running = {}
    /\ done = {}
    /\ log = <<>>
    /\ ndispatch = 0

(***************************************************************************)
(* PluginManager::load_plugin                                              *)
(***************************************************************************)

\* AHashMap::insert
Insert(map, key, value) ==
    [k \in (DOMAIN map) \cup {key} |-> IF k = key THEN value ELSE map[k]]

\* A load that fails and still records a library for the file.
load_plugin_err_recording(filename) ==
    /\ pc = "manager"
    /\ ~load(filename).ok
    /\ result' = load(filename).error
    /\ libraries' = Append(libraries, Len(loaded) + 1)
    /\ UNCHANGED <<pc, plugins, name_of_plugin, stages, cycleNode, loaded, dispatchVars>>

\* load_plugin when L::load returns Err: the `?` returns the error before
\* anything is recorded.
load_plugin_err(filename) ==
    /\ pc = "manager"
    /\ ~load(filename).ok
    /\ result' = load(filename).error
    /\ UNCHANGED <<pc, plugins, name_of_plugin, libraries, stages, cycleNode,
                   loaded, dispatchVars>>

\* The three statements of load_plugin after a successful load, on a manager
\* [plugins, name_of_plugin, libraries]; id identifies the new instance and
\* its library.
Record(manager, filename, id) ==
    [name_of_plugin |-> Insert(manager.name_of_plugin, name(filename), Len(manager.plugins)),
     plugins |-> Append(manager.plugins, [id |-> id, file |-> filename]),
     libraries |-> Append(manager.libraries, id)]

\* load_plugin when L::load returns Ok.
load_plugin_ok(filename) ==
    /\ pc = "manager"
    /\ load(filename).ok
    /\ Len(loaded) < MaxPlugins
    /\ LET m == Record([plugins |-> plugins, name_of_plugin |-> name_of_plugin,
                        libraries |-> libraries], filename, Len(loaded) + 1)
       IN  /\ name_of_plugin' = m.name_of_plugin
           /\ plugins' = m.plugins
           /\ libraries' = m.libraries
    /\ loaded' = Append(loaded, filename)
    /\ result' = "Ok"
    /\ UNCHANGED <<pc, stages, cycleNode, dispatchVars>>

(***************************************************************************)
(* PluginManager::into_dispatcher: the dependency graph                    *)
(***************************************************************************)

\* DiGraph::new(): node weights in NodeIndex order (NodeIndex i is nodes[i+1]),
\* edges as <<source, target>> NodeIndex pairs in insertion order.
EmptyGraph == [nodes |-> <<>>, edges |-> <<>>]

HasNode(graph, nm) == \E i \in 1..Len(graph.nodes) : graph.nodes[i] = nm

\* The NodeIndex node_indices holds for a name.
NodeIndexOf(graph, nm) == CHOOSE i \in 0..(Len(graph.nodes) - 1) : graph.nodes[i + 1] = nm

\* The closure `node`: node_indices.entry(name).or_insert_with(|| graph.add_node(name)).
node(graph, nm) ==
    IF HasNode(graph, nm) THEN graph ELSE [graph EXCEPT !.nodes = Append(@, nm)]

\* A variant whose edges point from the dependent to its dependency.
RECURSIVE AddDependenciesReversed(_, _, _, _)
AddDependenciesReversed(graph, master, deps, k) ==
    IF k > Len(deps) THEN graph
    ELSE LET g1 == node(graph, deps[k])
             dependency == NodeIndexOf(g1, deps[k])
         IN  AddDependenciesReversed([g1 EXCEPT !.edges = Append(@, <<master, dependency>>)],
                                     master, deps, k + 1)

\* The inner loop over plugin.dependencies(), from the k-th dependency on:
\* graph.add_edge(dependency, master, ()).
RECURSIVE AddDependencies(_, _, _, _)
AddDependencies(graph, master, deps, k) ==
    IF k > Len(deps) THEN graph
    ELSE LET g1 == node(graph, deps[k])
             dependency == NodeIndexOf(g1, deps[k])
         IN  AddDependencies([g1 EXCEPT !.edges = Append(@, <<dependency, master>>)],
                             master, deps, k + 1)

\* The loop `for plugin in &self.plugins`, from the k-th plugin on.
RECURSIVE BuildGraph(_, _, _)
BuildGraph(ps, k, graph) ==
    IF k > Len(ps) THEN graph
    ELSE LET g1 == node(graph, name(ps[k].file))
             master == NodeIndexOf(g1, name(ps[k].file))
         IN  BuildGraph(ps, k + 1, AddDependencies(g1, master, dependencies(ps[k].file), 1))

(***************************************************************************)
(* petgraph::algo::toposort, by its contract                               *)
(***************************************************************************)

EdgeSet(graph) == {graph.edges[i] : i \in 1..Len(graph.edges)}

\* All orderings of the NodeIndex values 0..n-1.
Orderings(n) ==
    {s \in [1..n -> 0..(n - 1)] : \A i, j \in 1..n : i # j => s[i] # s[j]}

PositionIn(order, v) == CHOOSE i \in 1..Len(order) : order[i] = v

\* The orders toposort may return: each node is ordered before its successors.
TopoOrders(graph) ==
    {o \in Orderings(Len(graph.nodes)) :
        \A e \in EdgeSet(graph) : PositionIn(o, e[1]) < PositionIn(o, e[2])}

\* The nodes reachable from the set S along at least one edge, in at most k rounds.
RECURSIVE ReachableFrom(_, _, _)
ReachableFrom(graph, S, k) ==
    LET next == {e[2] : e \in {d \in EdgeSet(graph) : d[1] \in S}}
    IN  IF k = 0 THEN {} ELSE next \cup ReachableFrom(graph, next, k - 1)

\* A variant that may name any node of the graph.
AllNodes(graph) ==
    0..(Len(graph.nodes) - 1)

\* The nodes that participate in a cycle (a self loop is a cycle).
CycleNodes(graph) ==
    {v \in 0..(Len(graph.nodes) - 1) : v \in ReachableFrom(graph, {v}, Len(graph.nodes))}

\* toposort(&graph, None): Ok(order) or Err(Cycle(node)).
toposort(graph) ==
    IF TopoOrders(graph) # {}
    THEN {[ok |-> TRUE, nodes |-> o, cycle |-> -1] : o \in TopoOrders(graph)}
    ELSE {[ok |-> FALSE, nodes |-> <<>>, cycle |-> v] : v \in CycleNodes(graph)}

(***************************************************************************)
(* PluginManager::into_dispatcher: the stages                              *)
(***************************************************************************)

\* Vec::remove(index), index from 0: the later elements shift down by one.
Remove(vec, index) ==
    [i \in 1..(Len(vec) - 1) |-> IF i <= index THEN vec[i] ELSE vec[i + 1]]

\* A variant that inserts each new stage in front of the earlier ones.
RECURSIVE BuildStagesPrepend(_, _, _, _, _, _)
BuildStagesPrepend(graph, nodes, k, nop, ps, stgs) ==
    IF k > Len(nodes) THEN [status |-> "Dispatcher", stages |-> stgs, plugins |-> ps]
    ELSE LET nm == graph.nodes[nodes[k] + 1] IN
         IF nm \notin DOMAIN nop
         THEN [status |-> "panic_key", stages |-> stgs, plugins |-> ps]
         ELSE LET index == nop[nm] IN
              IF index >= Len(ps)
              THEN [status |-> "panic_index", stages |-> stgs, plugins |-> ps]
              ELSE BuildStagesPrepend(graph, nodes, k + 1, nop, Remove(ps, index),
                                      <<<<ps[index + 1]>>>> \o stgs)

\* A variant that pushes every plugin onto one stage.
RECURSIVE BuildStagesSingleStage(_, _, _, _, _, _)
BuildStagesSingleStage(graph, nodes, k, nop, ps, stgs) ==
    IF k > Len(nodes) THEN [status |-> "Dispatcher", stages |-> stgs, plugins |-> ps]
    ELSE LET nm == graph.nodes[nodes[k] + 1] IN
         IF nm \notin DOMAIN nop
         THEN [status |-> "panic_key", stages |-> stgs, plugins |-> ps]
         ELSE LET index == nop[nm] IN
              IF index >= Len(ps)
              THEN [status |-> "panic_index", stages |-> stgs, plugins |-> ps]
              ELSE BuildStagesSingleStage(graph, nodes, k + 1, nop, Remove(ps, index),
                       IF stgs = <<>> THEN <<<<ps[index + 1]>>>>
                       ELSE <<Append(stgs[1], ps[index + 1])>>)

\* The loop `for node in nodes`, from the k-th node on.  The map lookup panics
\* on a missing key and Vec::remove panics on an index out of bounds; the local
\* `stages` and what is left of self.plugins are then what unwinding drops.
RECURSIVE BuildStages(_, _, _, _, _, _)
BuildStages(graph, nodes, k, nop, ps, stgs) ==
    IF k > Len(nodes) THEN [status |-> "Dispatcher", stages |-> stgs, plugins |-> ps]
    ELSE LET nm == graph.nodes[nodes[k] + 1] IN
         IF nm \notin DOMAIN nop
         THEN [status |-> "panic_key", stages |-> stgs, plugins |-> ps]
         ELSE LET index == nop[nm] IN
              IF index >= Len(ps)
              THEN [status |-> "panic_index", stages |-> stgs, plugins |-> ps]
              ELSE BuildStages(graph, nodes, k + 1, nop, Remove(ps, index),
                               Append(stgs, <<ps[index + 1]>>))

\* A variant that takes an empty order where toposort returns Err.
IntoDispatcherOutcomesUnwrapOrDefault(ps, nop) ==
    LET graph == BuildGraph(ps, 1, EmptyGraph) IN
    {LET b == BuildStages(graph, t.nodes, 1, nop, ps, <<>>)
     IN  [status |-> b.status, stages |-> b.stages, plugins |-> b.plugins, cycle |-> -1]
     : t \in toposort(graph)}

\* Every outcome of into_dispatcher on a manager holding plugins ps and name
\* index nop: one per outcome of toposort.
IntoDispatcherOutcomes(ps, nop) ==
    LET graph == BuildGraph(ps, 1, EmptyGraph) IN
    {IF t.ok
     THEN LET b == BuildStages(graph, t.nodes, 1, nop, ps, <<>>)
          IN  [status |-> b.status, stages |-> b.stages, plugins |-> b.plugins,
               cycle |-> -1]
     ELSE [status |-> "panic_cycle", stages |-> <<>>, plugins |-> ps, cycle |-> t.cycle]
     : t \in toposort(graph)}

\* into_dispatcher(self).  On success the Dispatcher takes stages and
\* self.libraries, and what is left of self (plugins never placed in a stage,
\* the name index) is dropped on return.  On a panic the locals and self are
\* dropped by unwinding, one value per DropStep.
into_dispatcher ==
    /\ pc = "manager"
    /\ \E o \in IntoDispatcherOutcomes(plugins, name_of_plugin) :
          /\ result' = o.status
          /\ cycleNode' = o.cycle
          /\ stages' = o.stages
          /\ IF o.status = "Dispatcher"
             THEN /\ pc' = "dispatcher"
                  /\ plugins' = <<>>
                  /\ name_of_plugin' = <<>>
             ELSE /\ pc' = "unwinding"
                  /\ plugins' = o.plugins
                  /\ UNCHANGED name_of_plugin
    /\ UNCHANGED <<libraries, loaded, dispatchVars>>

(***************************************************************************)
(* Drop                                                                    *)
(***************************************************************************)

\* PluginManager going out of scope (for example when main returns an error).
drop_manager ==
    /\ pc = "manager"
    /\ pc' = "dropping"
    /\ result' = "none"
    /\ UNCHANGED <<plugins, name_of_plugin, libraries, stages, cycleNode, loaded,
                   dispatchVars>>

\* Dispatcher going out of scope; no dispatch borrows it.
drop_dispatcher ==
    /\ pc = "dispatcher"
    /\ mode = "none"
    /\ pc' = "dropping"
    /\ result' = "none"
    /\ UNCHANGED <<plugins, name_of_plugin, libraries, stages, cycleNode, loaded,
                   dispatchVars>>

\* The stages without their first plugin instance; emptied stages go with it.
DropFirstOfStages(stgs) ==
    IF Len(Head(stgs)) <= 1 THEN Tail(stgs) ELSE <<Tail(Head(stgs))>> \o Tail(stgs)

\* A variant that releases the libraries before the plugin instances.
DropOrderLibrariesFirst ==
    IF libraries # <<>> THEN "libraries"
    ELSE IF stages # <<>> THEN "stages"
    ELSE IF plugins # <<>> THEN "plugins"
    ELSE "done"

\* What is dropped next.  Fields drop in declaration order: Dispatcher
\* { stages, thread_pool, libraries }, PluginManager { plugins, name_of_plugin,
\* libraries }; in an unwinding into_dispatcher the local `stages` drops before
\* the parameter `self`.
DropOrder ==
    IF stages # <<>> THEN "stages"
    ELSE IF plugins # <<>> THEN "plugins"
    ELSE IF libraries # <<>> THEN "libraries"
    ELSE "done"

\* One value is dropped: a Box<dyn Plugin> or a library.
DropStep ==
    /\ pc \in {"dropping", "unwinding"}
    /\ CASE DropOrder = "stages" ->
              /\ stages' = DropFirstOfStages(stages)
              /\ UNCHANGED <<pc, plugins, libraries, name_of_plugin>>
         [] DropOrder = "plugins" ->
              /\ plugins' = Tail(plugins)
              /\ UNCHANGED <<pc, stages, libraries, name_of_plugin>>
         [] DropOrder = "libraries" ->
              /\ libraries' = Tail(libraries)
              /\ name_of_plugin' = <<>>
              /\ UNCHANGED <<pc, stages, plugins>>
         [] OTHER ->
              /\ pc' = "terminated"
              /\ name_of_plugin' = <<>>
              /\ UNCHANGED <<stages, plugins, libraries>>
    /\ UNCHANGED <<result, cycleNode, loaded, dispatchVars>>

(***************************************************************************)
(* Dispatcher::dispatch and Dispatcher::dispatch_par                       *)
(***************************************************************************)

\* A call that goes on from the stage the previous call stopped at.
dispatch_begin_resuming(m) ==
    /\ pc = "dispatcher"
    /\ mode = "none"
    /\ ndispatch < MaxDispatches
    /\ mode' = m
    /\ stageIdx' = IF stageIdx = 0 THEN 1 ELSE stageIdx
    /\ started' = {}
    /\ running' = {}
    /\ done' = {}
    /\ ndispatch' = ndispatch + 1
    /\ result' = "none"
    /\ UNCHANGED <<pc, plugins, name_of_plugin, libraries, stages, cycleNode, loaded, log>>

\* A call of dispatch (m = "dispatch") or dispatch_par (m = "dispatch_par").
dispatch_begin(m) ==
    /\ pc = "dispatcher"
    /\ mode = "none"
    /\ ndispatch < MaxDispatches
    /\ mode' = m
    /\ stageIdx' = 1
    /\ started' = {}
    /\ running' = {}
    /\ done' = {}
    /\ ndispatch' = ndispatch + 1
    /\ result' = "none"
    /\ UNCHANGED <<pc, plugins, name_of_plugin, libraries, stages, cycleNode, loaded, log>>

\* dispatch: stage.iter().for_each(|plugin| plugin.run()) calls run on the next
\* plugin of the stage, in the stage's order.
seq_run_start ==
    /\ mode = "dispatch"
    /\ running = {}
    /\ stageIdx <= Len(stages)
    /\ LET k == Cardinality(started) + 1 IN
       /\ k <= Len(stages[stageIdx])
       /\ started' = started \cup {k}
       /\ running' = {stages[stageIdx][k].id}
       /\ log' = Append(log, <<"start", stages[stageIdx][k].id>>)
    /\ UNCHANGED <<pc, plugins, name_of_plugin, libraries, stages, result, cycleNode,
                   loaded, mode, stageIdx, done, ndispatch>>

\* dispatch: run returns; after the last plugin of a stage the outer for_each
\* moves to the next stage.
seq_run_end ==
    /\ mode = "dispatch"
    /\ \E id \in running :
          /\ running' = running \ {id}
          /\ done' = done \cup {id}
          /\ log' = Append(log, <<"end", id>>)
    /\ IF Cardinality(started) = Len(stages[stageIdx])
       THEN stageIdx' = stageIdx + 1 /\ started' = {}
       ELSE UNCHANGED <<stageIdx, started>>
    /\ UNCHANGED <<pc, plugins, name_of_plugin, libraries, stages, result, cycleNode,
                   loaded, mode, ndispatch>>

\* dispatch_par: stage.par_iter().for_each(|plugin| plugin.run()): a free worker
\* of the pool takes any plugin of the current stage not yet taken.
par_run_start(k) ==
    /\ mode = "dispatch_par"
    /\ stageIdx <= Len(stages)
    /\ k \in (1..Len(stages[stageIdx])) \ started
    /\ Cardinality(running) < PoolSize
    /\ started' = started \cup {k}
    /\ running' = running \cup {stages[stageIdx][k].id}
    /\ log' = Append(log, <<"start", stages[stageIdx][k].id>>)
    /\ UNCHANGED <<pc, plugins, name_of_plugin, libraries, stages, result, cycleNode,
                   loaded, mode, stageIdx, done, ndispatch>>

\* dispatch_par: a worker's run returns.
par_run_end(id) ==
    /\ mode = "dispatch_par"
    /\ id \in running
    /\ running' = running \ {id}
    /\ done' = done \cup {id}
    /\ log' = Append(log, <<"end", id>>)
    /\ UNCHANGED <<pc, plugins, name_of_plugin, libraries, stages, result, cycleNode,
                   loaded, mode, stageIdx, started, ndispatch>>

\* A join that lets the loop go on as soon as every plugin has been handed out.
StageJoinedWhenAllTaken ==
    started = 1..Len(stages[stageIdx])

\* par_iter().for_each returns when every item's closure has returned.
StageJoined ==
    /\ started = 1..Len(stages[stageIdx])
    /\ running = {}

\* dispatch_par: for_each has returned and the `for stage` loop moves on.
par_stage_next ==
    /\ mode = "dispatch_par"
    /\ stageIdx <= Len(stages)
    /\ StageJoined
    /\ stageIdx' = stageIdx + 1
    /\ started' = {}
    /\ UNCHANGED <<pc, plugins, name_of_plugin, libraries, stages, result, cycleNode,
                   loaded, mode, running, done, log, ndispatch>>

\* A return taken as soon as the last stage has been reached.
dispatch_return_early ==
    /\ mode # "none"
    /\ stageIdx >= Len(stages)
    /\ mode' = "none"
    /\ result' = "returned"
    /\ UNCHANGED <<pc, plugins, name_of_plugin, libraries, stages, cycleNode, loaded,
                   stageIdx, started, running, done, log, ndispatch>>

\* dispatch / dispatch_par return to the caller after the last stage.
dispatch_return ==
    /\ mode # "none"
    /\ stageIdx > Len(stages)
    /\ mode' = "none"
    /\ result' = "returned"
    /\ UNCHANGED <<pc, plugins, name_of_plugin, libraries, stages, cycleNode, loaded,
                   stageIdx, started, running, done, log, ndispatch>>

Next ==
    \/ \E f \in Files : load_plugin_err(f)
    \/ \E f \in Files : load_plugin_ok(f)
    \/ into_dispatcher
    \/ \E m \in {"dispatch", "dispatch_par"} : dispatch_begin(m)
    \/ seq_run_start
    \/ seq_run_end
    \/ \E k \in 1..MaxPlugins : par_run_start(k)
    \/ \E id \in 1..MaxPlugins : par_run_end(id)
    \/ par_stage_next
    \/ dispatch_return
    \/ drop_manager
    \/ drop_dispatcher
    \/ DropStep

Spec == Init /\ [][Next]_vars

(***************************************************************************)
(* What was loaded, read from the load history                             *)
(***************************************************************************)

Range(seq) == {seq[i] : i \in 1..Len(seq)}

LoadedNames == {name(f) : f \in Range(loaded)}

\* The plugins report pairwise distinct names.
DistinctNames == \A i, j \in 1..Len(loaded) : i # j => name(loaded[i]) # name(loaded[j])

\* The names a loaded plugin named n lists as dependencies.
DirectDeps(n) == UNION {Range(dependencies(f)) : f \in {g \in Range(loaded) : name(g) = n}}

\* The names reachable from the names in S along at most k dependency steps.
RECURSIVE DepsWithin(_, _)
DepsWithin(S, k) ==
    LET next == UNION {DirectDeps(n) : n \in S}
    IN  IF k = 0 THEN {} ELSE next \cup DepsWithin(next, k - 1)

\* The names a plugin named n depends on, directly or transitively.
TransitiveDeps(n) == DepsWithin({n}, Len(loaded) + 1)

\* Every dependency name is the name of a loaded plugin.
AllResolved == \A n \in LoadedNames : DirectDeps(n) \subseteq LoadedNames

\* The dependency graph has a cycle (a plugin naming itself included).
HasCycle == \E n \in LoadedNames : n \in TransitiveDeps(n)

\* The id of the instance registered under name n: the last one loaded with it.
Holder(n) ==
    CHOOSE i \in 1..Len(loaded) :
        name(loaded[i]) = n /\ \A j \in (i + 1)..Len(loaded) : name(loaded[j]) # n

\* The instances of the plan, with the index of the stage that holds them.
Placed ==
    UNION {{[stage |-> i, plugin |-> stages[i][k]] : k \in 1..Len(stages[i])} :
              i \in 1..Len(stages)}

Panics == {"panic_cycle", "panic_key", "panic_index"}

(***************************************************************************)
(* Claims                                                                  *)
(***************************************************************************)

\* C1: for loaded plugins with pairwise distinct names, all dependency names
\* resolved and an acyclic dependency graph, into_dispatcher does not panic,
\* whatever the load order.
C1_IntoDispatcherReturns ==
    (DistinctNames /\ AllResolved /\ ~HasCycle) => ~(pc = "unwinding" /\ result \in Panics)

\* C2: when into_dispatcher returns a Dispatcher for plugins with pairwise
\* distinct names, every plugin B that a plugin A of the plan depends on,
\* directly or transitively, is in the plan at a stage strictly before A's.
C2_DependenciesInEarlierStages ==
    (pc = "dispatcher" /\ DistinctNames) =>
        \A a \in Placed : \A n \in TransitiveDeps(name(a.plugin.file)) :
            /\ \E b \in Placed : name(b.plugin.file) = n
            /\ \A b \in Placed : name(b.plugin.file) = n => b.stage < a.stage

\* A plan was returned for a chain of three distinctly named plugins, so a
\* plugin of the plan has a transitive dependency that is not a direct one.
C2_Witness ==
    /\ pc = "dispatcher"
    /\ DistinctNames
    /\ \E a \in Placed : \E n \in TransitiveDeps(name(a.plugin.file)) :
          n \notin DirectDeps(name(a.plugin.file))

\* C3: when the dependency graph of the loaded plugins has a cycle (a plugin
\* that names itself included), into_dispatcher panics with petgraph's Cycle
\* value before any stage is built; no Dispatcher exists and no run is executed.
C3_CycleFails ==
    HasCycle =>
        /\ pc # "dispatcher"
        /\ mode = "none" /\ log = <<>> /\ running = {}
        /\ stages = <<>>
        /\ pc = "unwinding" => (result = "panic_cycle" /\ cycleNode >= 0)

\* into_dispatcher has panicked on a cycle through two plugins.
C3_Witness ==
    /\ pc = "unwinding"
    /\ result = "panic_cycle"
    /\ HasCycle
    /\ \A n \in LoadedNames : n \notin DirectDeps(n)

RECURSIVE ManagerAfter(_, _)
ManagerAfter(files, k) ==
    IF k = 0 THEN [plugins |-> <<>>, name_of_plugin |-> <<>>, libraries |-> <<>>]
    ELSE Record(ManagerAfter(files, k - 1), files[k], k)

\* The outcomes of into_dispatcher after loading files in the given order.
OutcomesAfter(files) ==
    LET m == ManagerAfter(files, Len(files))
    IN  IntoDispatcherOutcomes(m.plugins, m.name_of_plugin)

\* Every order in which the loaded files could have been loaded.
Reorderings(files) ==
    {[i \in 1..Len(files) |-> files[o[i] + 1]] : o \in Orderings(Len(files))}

\* In a plan, every plugin named as a dependency is at an earlier stage.
PlanRespectsDependencies(stgs) ==
    \A i, j \in 1..Len(stgs) : \A a \in Range(stgs[i]), b \in Range(stgs[j]) :
        name(b.file) \in Range(dependencies(a.file)) => j < i

\* C5: the outcome of into_dispatcher does not depend on the load order: loading
\* the same distinctly named plugins in any other order, into_dispatcher returns
\* exactly when it returns for this order, and every plan returned respects the
\* dependency ordering.
C5_LoadOrderIndependent ==
    (pc = "manager" /\ DistinctNames) =>
        \A q \in Reorderings(loaded) :
            /\ {o.status = "Dispatcher" : o \in OutcomesAfter(q)}
                 = {o.status = "Dispatcher" : o \in OutcomesAfter(loaded)}
            /\ \A o \in OutcomesAfter(q) :
                  o.status = "Dispatcher" => PlanRespectsDependencies(o.stages)

\* C6: when a loaded plugin names a dependency for which no plugin was loaded,
\* into_dispatcher does not panic (and a later dispatch runs the plugin).
C6_UnresolvedDependencyTolerated ==
    ~AllResolved => ~(pc = "unwinding" /\ result \in Panics)

\* Three distinctly named plugins were loaded and none names another of them
\* (or itself) as a dependency.
ThreeIndependent ==
    /\ Len(loaded) = 3
    /\ DistinctNames
    /\ \A f \in Range(loaded) : Range(dependencies(f)) \cap LoadedNames = {}

\* C7 as stated: for three loaded plugins with no dependencies among them the
\* plan has a single stage containing all three.
C7_SingleStageOfThree ==
    (pc = "dispatcher" /\ ThreeIndependent) => (Len(stages) = 1 /\ Len(stages[1]) = 3)

\* C7 amended: for three loaded plugins with no dependencies among them, every
\* plan into_dispatcher returns has three stages, each holding exactly one of
\* the three plugins (never a single stage of three).
C7_OneStagePerPlugin ==
    (pc = "dispatcher" /\ ThreeIndependent) =>
        /\ Len(stages) = 3
        /\ \A i \in 1..Len(stages) : Len(stages[i]) = 1
        /\ {a.plugin.id : a \in Placed} = {1, 2, 3}

\* A plan was returned for three independent plugins.
C7_Witness ==
    pc = "dispatcher" /\ ThreeIndependent /\ Len(stages) = 3

\* The plugin instances that exist, by id.
LiveInstances == {p.id : p \in Range(plugins)} \cup {a.plugin.id : a \in Placed}

\* C8: in every state of the load / plan / dispatch / drop lifecycle, the
\* library of every plugin instance that still exists has not been released.
C8_InstancesDroppedBeforeLibraries ==
    LiveInstances \subseteq Range(libraries)

\* into_dispatcher panicked while draining plugins; unwinding has dropped every
\* instance and has started to release the libraries.
C8_Witness ==
    /\ pc = "unwinding"
    /\ result = "panic_index"
    /\ LiveInstances = {}
    /\ libraries # <<>>
    /\ Len(libraries) < Len(loaded)

\* C9: a load_plugin call that returns an error leaves plugins, name_of_plugin
\* and libraries exactly as they were.
C9_FailedLoadLeavesManager ==
    [][result' \in {"Err_Library", "Err_Plugin"} =>
          UNCHANGED <<plugins, name_of_plugin, libraries>>]_vars

\* A load has failed on a manager that holds previously loaded plugins.
C9_Witness ==
    /\ pc = "manager"
    /\ result \in {"Err_Library", "Err_Plugin"}
    /\ Len(plugins) >= 2
    /\ Len(libraries) = Len(plugins)
    /\ DOMAIN name_of_plugin = LoadedNames

\* C10: in dispatch_par, when the run of a plugin of some stage has started,
\* the run of every plugin of every earlier stage has returned.
C10_StageBarrier ==
    mode = "dispatch_par" =>
        \A a \in Placed : a.plugin.id \in running \cup done =>
            \A b \in Placed : b.stage < a.stage =>
                b.plugin.id \in done /\ b.plugin.id \notin running

\* dispatch_par is running a plugin of the second stage.
C10_Witness ==
    /\ mode = "dispatch_par"
    /\ stageIdx = 2
    /\ running # {}
    /\ \E a \in Placed : a.stage = 2 /\ a.plugin.id \in running

\* Two plugin instances one of which depends on the other, directly or
\* transitively, by the names they report.
Related(p, q) ==
    \/ name(q.file) \in TransitiveDeps(name(p.file))
    \/ name(p.file) \in TransitiveDeps(name(q.file))

\* C11: under dispatch and dispatch_par alike, the runs of two plugins related
\* by a direct or transitive dependency are never in progress at the same time.
C11_NoConcurrentDependents ==
    \A a, b \in Placed :
        (a.plugin.id # b.plugin.id /\ Related(a.plugin, b.plugin)) =>
            ~(a.plugin.id \in running /\ b.plugin.id \in running)

\* dispatch_par runs a plugin whose dependency is in the plan and has returned.
C11_Witness ==
    /\ mode = "dispatch_par"
    /\ \E a, b \in Placed :
          /\ name(b.plugin.file) \in TransitiveDeps(name(a.plugin.file))
          /\ a.plugin.id \in running
          /\ b.plugin.id \in done

\* The events the d-th call of dispatch or dispatch_par appended to the log,
\* for a plan of n plugins.
CallLog(d, n) == SubSeq(log, (d - 1) * 2 * n + 1, d * 2 * n)

\* The position in a call's events at which plugin id starts.
StartOf(events, id) == CHOOSE i \in 1..Len(events) : events[i] = <<"start", id>>

\* Between calls: every completed call ran each plugin of the plan exactly
\* once, stage after stage, and all calls ran them in the same order.
C12_EveryCallRunsThePlan ==
    (pc = "dispatcher" /\ mode = "none") =>
        LET n == Cardinality(Placed) IN
        /\ Len(log) = ndispatch * 2 * n
        /\ \A d \in 1..ndispatch :
              /\ \A a \in Placed :
                    /\ Cardinality({i \in 1..(2 * n) :
                           CallLog(d, n)[i] = <<"start", a.plugin.id>>}) = 1
                    /\ Cardinality({i \in 1..(2 * n) :
                           CallLog(d, n)[i] = <<"end", a.plugin.id>>}) = 1
              /\ \A a, b \in Placed :
                    a.stage < b.stage =>
                        StartOf(CallLog(d, n), a.plugin.id) <
                            StartOf(CallLog(d, n), b.plugin.id)
              /\ CallLog(d, n) = CallLog(1, n)

\* A call starts at the first stage; no step of a call touches the plan or the
\* retained libraries.
C12_CallStep ==
    /\ (mode = "none" /\ mode' # "none") => stageIdx' = 1
    /\ (pc = "dispatcher" /\ pc' = "dispatcher") =>
           (stages' = stages /\ libraries' = libraries)

\* C12: dispatch can be invoked any number of times; each invocation starts
\* at the first stage, runs every plugin of the plan exactly once, in the same
\* stage order every time, and leaves the plan and the retained libraries
\* unchanged.
C12_DispatchRepeatable ==
    [](C12_EveryCallRunsThePlan) /\ [][C12_CallStep]_vars

\* Two calls have returned on a plan of at least two stages.
C12_Witness ==
    /\ pc = "dispatcher"
    /\ mode = "none"
    /\ result = "returned"
    /\ ndispatch = 2
    /\ Len(stages) >= 2
    /\ Len(log) = 4 * Len(stages)

\* The instances loaded under a name that a later load took over.
Superseded ==
    {i \in 1..Len(loaded) : \E j \in (i + 1)..Len(loaded) : name(loaded[j]) = name(loaded[i])}

\* C13: when two loaded plugins report the same name, the name index maps the
\* name to the later-loaded instance, and the earlier instance is never placed
\* in a stage and never run, while its library stays retained, whatever other
\* plugins are loaded.
C13_SupersededNeverPlaced ==
    /\ pc = "manager" =>
          \A n \in LoadedNames : name_of_plugin[n] = Holder(n) - 1
    /\ pc = "dispatcher" =>
          /\ \A a \in Placed : a.plugin.id \notin Superseded
          /\ \A e \in Range(log) : e[2] \notin Superseded
          /\ \A i \in Superseded : i \in Range(libraries)

\* The dependency graph into_dispatcher builds from the plugins loaded so far.
LoadedGraph == BuildGraph(ManagerAfter(loaded, Len(loaded)).plugins, 1, EmptyGraph)

\* The names of the nodes of a topological order, in that order.
NamesOf(graph, nodes) == [i \in 1..Len(nodes) |-> graph.nodes[nodes[i] + 1]]

\* C15: every plan into_dispatcher returns has exactly one plugin in each
\* stage, the stages listed in the topological order computed over the
\* dependency graph (stage i holds the plugin of the i-th node of the order),
\* so that there are as many stages as plugins placed.
C15_OnePluginPerStageInTopologicalOrder ==
    pc = "dispatcher" =>
        /\ \A i \in 1..Len(stages) : Len(stages[i]) = 1
        /\ Len(stages) = Cardinality({a.plugin.id : a \in Placed})
        /\ \E t \in toposort(LoadedGraph) :
              /\ t.ok
              /\ NamesOf(LoadedGraph, t.nodes) =
                     [i \in 1..Len(stages) |-> name(stages[i][1].file)]

(***************************************************************************)
(* dispatch_par under a fair worker pool                                   *)
(***************************************************************************)

\* Loading, planning and parallel dispatch.
LiveNext ==
    \/ \E f \in PluginFiles : load_plugin_ok(f)
    \/ into_dispatcher
    \/ dispatch_begin("dispatch_par")
    \/ \E k \in 1..MaxPlugins : par_run_start(k)
    \/ \E id \in 1..MaxPlugins : par_run_end(id)
    \/ par_stage_next
    \/ dispatch_return

\* thread_pool.install blocks the caller until the closure returns; rayon
\* hands every item of a stage to a worker, every run is taken to terminate,
\* and the caller's loop goes on once for_each has returned.
LiveSpec ==
    /\ Init
    /\ [][LiveNext]_vars
    /\ WF_vars(\E k \in 1..MaxPlugins : par_run_start(k))
    /\ WF_vars(\E id \in 1..MaxPlugins : par_run_end(id))
    /\ WF_vars(par_stage_next)
    /\ WF_vars(dispatch_return)

\* dispatch_par returns with no run in progress and every plugin of the plan run.
C14_ReturnStep ==
    (mode = "dispatch_par" /\ mode' = "none") =>
        /\ running = {}
        /\ done = {a.plugin.id : a \in Placed}

\* C14: dispatch_par returns to its caller only after every plugin action of
\* every stage has returned, and, every action terminating and the pool being
\* fair, it eventually returns.
C14_DispatchParReturnsAfterAll ==
    /\ [][C14_ReturnStep]_vars
    /\ (mode = "dispatch_par") ~> (mode = "none" /\ result = "returned")

\* dispatch_par is about to return from a plan of at least two stages.
C14_Witness ==
    /\ mode = "dispatch_par"
    /\ Len(stages) >= 2
    /\ stageIdx > Len(stages)
    /\ running = {}
    /\ done = {a.plugin.id : a \in Placed}

\* C16: during stage construction every lookup name_of_plugin[name] for a node
\* of the topological order finds a key, the index it yields is within the
\* bounds of the partly drained plugins vector, and the plugin removed at that
\* index is the one whose name is the node's name.
C16_LoadTimeIndicesStayValid ==
    pc = "manager" =>
        LET graph == BuildGraph(plugins, 1, EmptyGraph) IN
        \A t \in toposort(graph) :
            t.ok =>
                LET b == BuildStages(graph, t.nodes, 1, name_of_plugin, plugins, <<>>) IN
                /\ b.status # "panic_key"
                /\ b.status # "panic_index"
                /\ \A i \in 1..Len(b.stages) :
                      name(b.stages[i][1].file) = NamesOf(graph, t.nodes)[i]

\* The positions <<stage, slot>> of the plan that hold the instance id.
PositionsOf(id) ==
    {<<i, k>> \in (1..Len(stages)) \X (1..MaxPlugins) :
        k <= Len(stages[i]) /\ stages[i][k].id = id}

\* C17: after into_dispatcher returns, no plugin instance is at more than one
\* position of the plan, and every loaded plugin that is the current holder of
\* its name appears in exactly one stage, duplicate names or not.
C17_HoldersPlacedExactlyOnce ==
    pc = "dispatcher" =>
        /\ \A id \in 1..Len(loaded) : Cardinality(PositionsOf(id)) <= 1
        /\ \A n \in LoadedNames : Cardinality(PositionsOf(Holder(n))) = 1

RECURSIVE PlanOrder(_)
PlanOrder(stgs) ==
    IF stgs = <<>> THEN <<>>
    ELSE [k \in 1..Len(stgs[1]) |-> stgs[1][k].id] \o PlanOrder(Tail(stgs))

\* The events of one call of dispatch on the plan: each run starts and returns
\* before the next one starts.
SequentialLog(stgs) ==
    LET order == PlanOrder(stgs) IN
    [j \in 1..(2 * Len(order)) |->
        IF j % 2 = 1 THEN <<"start", order[(j + 1) \div 2]>>
                     ELSE <<"end", order[j \div 2]>>]

\* C19: on every plan of into_dispatcher, dispatch_par starts and finishes the
\* plugin actions in exactly the total order dispatch does, and under
\* dispatch_par no two plugin actions overlap.
C19_ParallelOrderIsSequentialOrder ==
    pc = "dispatcher" =>
        /\ Cardinality(running) <= 1
        /\ \A i \in 1..Len(log) :
              log[i] = SequentialLog(stages)[((i - 1) % (2 * Len(PlanOrder(stages)))) + 1]

\* A call of dispatch followed by a call of dispatch_par that has run the
\* whole plan of at least two stages.
C19_Witness ==
    /\ pc = "dispatcher"
    /\ mode = "dispatch_par"
    /\ ndispatch = 2
    /\ Len(stages) >= 2
    /\ Len(log) = 4 * Len(stages)
    /\ log[1] = <<"start", stages[1][1].id>>

\* A call of load_plugin on the file f.
LoadStep(f) == load_plugin_err(f) \/ load_plugin_ok(f)

\* One call of load_plugin, judged against what the loader is said to do.
C20_NativeLoadStep ==
    \A f \in Files :
        LoadStep(f) =>
            /\ (load(f).error = "Err_Library") <=> ~IsLibrary(f)
            /\ (load(f).error = "Err_Plugin") <=>
                   (IsLibrary(f) /\ EntryPoint \notin Exports(f))
            /\ ~load(f).ok => (libraries' = libraries /\ plugins' = plugins)
            /\ (f = "hello_world") => result' = "Ok"

\* C20: Native::load fails with PluginLoadError::Library exactly when the
\* library handle cannot be obtained and with PluginLoadError::Plugin exactly
\* when the handle was obtained but the entry point is not found; a failure
\* hands over neither a library nor a plugin; and loading the library of
\* plugins/hello-world succeeds.
C20_NativeLoad == [][C20_NativeLoadStep]_vars

====
